---------------------------- MODULE Spec2Model ----------------------------
(***************************************************************************)
(* A model of the fetch handler of src/src/index.ts: the GraphQL-like      *)
(* relay that classifies a POST body by substring matching, validates the  *)
(* input of sendMessage, calls the OpenAI chat-completion API once and     *)
(* wraps every outcome in a response.                                      *)
(*                                                                         *)
(* One invocation of fetch is modelled as a sequential process whose       *)
(* position is pc.  The steps are cut at the await points of the handler   *)
(* (request.json(), fetch(), response.text(), response.json()) and at its  *)
(* branch points.  Text is a sequence of one-character strings, so that    *)
(* toLowerCase, includes, trim and the template literals are computed and  *)
(* not assumed.  Characters outside ASCII are written as their code point  *)
(* ("U+9519").  requestId and timestamp are opaque tokens.                 *)
(***************************************************************************)
EXTENDS Integers, Sequences, FiniteSets, TLC

VARIABLES
    pc,         \* position of the invocation in fetch
    request,    \* the inbound Request (<<>> before the invocation)
    body,       \* const body (line 79): <<>> or <<parsed JSON value>>
    query,      \* const query (line 95): the lower-cased descriptor
    variables,  \* const variables (line 96)
    input,      \* const input (line 109)
    result,     \* let result (line 97): <<>> or <<GraphQLResponse>>
    response,   \* the Response returned by fetch: <<>> or <<Response>>
    thrown,     \* the exception in flight or last caught: <<>> or <<e>>
    upstream,   \* const openAIResponse (line 133): <<>> or <<response>>
    outbound,   \* the requests sent to api.openai.com, in order
    log,        \* the console.error entries, in order
    events      \* the handler's steps that matter for ordering, in order

vars == <<pc, request, body, query, variables, input, result, response,
          thrown, upstream, outbound, log, events>>

---------------------------------------------------------------------------
(* Bounds of the model. *)

\* the longest descriptor is the concatenation of MaxFrags fragments
MaxFrags == 3

\* the longest list of completion choices in an upstream body
MaxChoices == 2

---------------------------------------------------------------------------
(* Program constants and text literals. *)

\* max_tokens of the upstream request
MaxTokens == 500

\* '只支持 POST 请求' (only POST requests are supported)
MsgOnlyPost ==
    <<"U+53EA", "U+652F", "U+6301", " ", "P", "O", "S", "T", " ", "U+8BF7",
      "U+6C42">>

\* '无效的 GraphQL 请求' (invalid GraphQL request)
MsgInvalidRequest ==
    <<"U+65E0", "U+6548", "U+7684", " ", "G", "r", "a", "p", "h", "Q", "L",
      " ", "U+8BF7", "U+6C42">>

\* 'GraphQL API 正常运行中' (GraphQL API is running)
MsgStatusOk ==
    <<"G", "r", "a", "p", "h", "Q", "L", " ", "A", "P", "I", " ", "U+6B63",
      "U+5E38", "U+8FD0", "U+884C", "U+4E2D">>

\* '请提供输入内容' (please provide input)
MsgInputRequired ==
    <<"U+8BF7", "U+63D0", "U+4F9B", "U+8F93", "U+5165", "U+5185", "U+5BB9">>

\* 'OpenAI API 错误: ' (OpenAI API error: )
MsgApiErrorPrefix ==
    <<"O", "p", "e", "n", "A", "I", " ", "A", "P", "I", " ", "U+9519",
      "U+8BEF", ":", " ">>

\* '处理请求时出错' (error while processing the request)
MsgProcessingError ==
    <<"U+5904", "U+7406", "U+8BF7", "U+6C42", "U+65F6", "U+51FA", "U+9519">>

\* '不支持的 GraphQL 查询' (unsupported GraphQL query)
MsgUnsupported ==
    <<"U+4E0D", "U+652F", "U+6301", "U+7684", " ", "G", "r", "a", "p", "h",
      "Q", "L", " ", "U+67E5", "U+8BE2">>

\* 'query'
MarkerQuery ==
    <<"q", "u", "e", "r", "y">>

\* 'status'
MarkerStatus ==
    <<"s", "t", "a", "t", "u", "s">>

\* 'mutation'
MarkerMutation ==
    <<"m", "u", "t", "a", "t", "i", "o", "n">>

\* 'sendmessage'
MarkerSendMessage ==
    <<"s", "e", "n", "d", "m", "e", "s", "s", "a", "g", "e">>

\* 'query { status }'
FragStatusQuery ==
    <<"q", "u", "e", "r", "y", " ", "{", " ", "s", "t", "a", "t", "u", "s",
      " ", "}">>

\* 'mutation { sendMessage(input: $input) }'
FragSendMutation ==
    <<"m", "u", "t", "a", "t", "i", "o", "n", " ", "{", " ", "s", "e", "n",
      "d", "M", "e", "s", "s", "a", "g", "e", "(", "i", "n", "p", "u", "t",
      ":", " ", "$", "i", "n", "p", "u", "t", ")", " ", "}">>

\* 'QUERY'
FragQuery ==
    <<"Q", "U", "E", "R", "Y">>

\* 'Status'
FragStatus ==
    <<"S", "t", "a", "t", "u", "s">>

\* 'Mutation '
FragMutation ==
    <<"M", "u", "t", "a", "t", "i", "o", "n", " ">>

\* 'SendMessage'
FragSendMessage ==
    <<"S", "e", "n", "d", "M", "e", "s", "s", "a", "g", "e">>

\* 'sendMess'
FragSendMess ==
    <<"s", "e", "n", "d", "M", "e", "s", "s">>

\* 'hello'
TextHello ==
    <<"h", "e", "l", "l", "o">>

\* ' hi '
TextPadded ==
    <<" ", "h", "i", " ">>

\* ' \t\n'
TextBlank ==
    <<" ", "\t", "\n">>

\* 'hi there'
TextHiThere ==
    <<"h", "i", " ", "t", "h", "e", "r", "e">>

\* 'invalid api key'
RawInvalidKey ==
    <<"i", "n", "v", "a", "l", "i", "d", " ", "a", "p", "i", " ", "k", "e",
      "y">>

\* 'quota'
RawQuota ==
    <<"q", "u", "o", "t", "a">>

\* 'fetch failed'
ErrFetchFailed ==
    <<"f", "e", "t", "c", "h", " ", "f", "a", "i", "l", "e", "d">>

\* 'body stream error'
ErrBodyStream ==
    <<"b", "o", "d", "y", " ", "s", "t", "r", "e", "a", "m", " ", "e", "r",
      "r", "o", "r">>

\* 'Unexpected end of JSON input'
ErrJsonSyntax ==
    <<"U", "n", "e", "x", "p", "e", "c", "t", "e", "d", " ", "e", "n", "d",
      " ", "o", "f", " ", "J", "S", "O", "N", " ", "i", "n", "p", "u", "t">>

\* "Cannot read properties of undefined (reading 'message')"
ErrReadZero ==
    <<"C", "a", "n", "n", "o", "t", " ", "r", "e", "a", "d", " ", "p", "r",
      "o", "p", "e", "r", "t", "i", "e", "s", " ", "o", "f", " ", "u", "n",
      "d", "e", "f", "i", "n", "e", "d", " ", "(", "r", "e", "a", "d", "i",
      "n", "g", " ", "'", "m", "e", "s", "s", "a", "g", "e", "'", ")">>

\* "Cannot read properties of null (reading 'choices')"
ErrReadChoices ==
    <<"C", "a", "n", "n", "o", "t", " ", "r", "e", "a", "d", " ", "p", "r",
      "o", "p", "e", "r", "t", "i", "e", "s", " ", "o", "f", " ", "n", "u",
      "l", "l", " ", "(", "r", "e", "a", "d", "i", "n", "g", " ", "'", "c",
      "h", "o", "i", "c", "e", "s", "'", ")">>

\* 'body.query.toLowerCase is not a function'
ErrToLowerCase ==
    <<"b", "o", "d", "y", ".", "q", "u", "e", "r", "y", ".", "t", "o", "L",
      "o", "w", "e", "r", "C", "a", "s", "e", " ", "i", "s", " ", "n", "o",
      "t", " ", "a", " ", "f", "u", "n", "c", "t", "i", "o", "n">>

\* 'input.trim is not a function'
ErrTrim ==
    <<"i", "n", "p", "u", "t", ".", "t", "r", "i", "m", " ", "i", "s", " ",
      "n", "o", "t", " ", "a", " ", "f", "u", "n", "c", "t", "i", "o", "n">>

\* "Cannot read properties of null (reading 'query')"
ErrReadQuery ==
    <<"C", "a", "n", "n", "o", "t", " ", "r", "e", "a", "d", " ", "p", "r",
      "o", "p", "e", "r", "t", "i", "e", "s", " ", "o", "f", " ", "n", "u",
      "l", "l", " ", "(", "r", "e", "a", "d", "i", "n", "g", " ", "'", "q",
      "u", "e", "r", "y", "'", ")">>

\* '[object Object]'
ObjectToString ==
    <<"[", "o", "b", "j", "e", "c", "t", " ", "O", "b", "j", "e", "c", "t",
      "]">>

---------------------------------------------------------------------------
(* Text operations. *)

UpperCase == <<"A", "B", "C", "D", "E", "F", "G", "H", "I", "J", "K", "L",
               "M", "N", "O", "P", "Q", "R", "S", "T", "U", "V", "W", "X",
               "Y", "Z">>

LowerCase == <<"a", "b", "c", "d", "e", "f", "g", "h", "i", "j", "k", "l",
               "m", "n", "o", "p", "q", "r", "s", "t", "u", "v", "w", "x",
               "y", "z">>

UpperSet == {UpperCase[i] : i \in 1..26}

ToLowerChar(c) ==
    IF c \in UpperSet
    THEN LowerCase[CHOOSE i \in 1..26 : UpperCase[i] = c]
    ELSE c

\* String.prototype.toLowerCase: the text with every character lower-cased
\* (SubSeq makes the result a sequence again)
ToLowerCase(s) ==
    SubSeq([i \in 1..Len(s) |-> ToLowerChar(s[i])], 1, Len(s))

\* String.prototype.includes
Includes(s, sub) ==
    \E i \in 0..(Len(s) - Len(sub)) : SubSeq(s, i + 1, i + Len(sub)) = sub

WhiteSpace == {" ", "\t", "\n", "\r"}

RECURSIVE TrimStart(_)
TrimStart(s) ==
    IF s # <<>> /\ Head(s) \in WhiteSpace THEN TrimStart(Tail(s)) ELSE s

RECURSIVE TrimEnd(_)
TrimEnd(s) ==
    IF s # <<>> /\ s[Len(s)] \in WhiteSpace
    THEN TrimEnd(SubSeq(s, 1, Len(s) - 1))
    ELSE s

\* String.prototype.trim
Trim(s) == TrimEnd(TrimStart(s))

Digits == <<"0", "1", "2", "3", "4", "5", "6", "7", "8", "9">>

\* a number inside a template literal: ${openAIResponse.status}
RECURSIVE NumToStr(_)
NumToStr(n) ==
    IF n < 10
    THEN <<Digits[n + 1]>>
    ELSE NumToStr(n \div 10) \o <<Digits[(n % 10) + 1]>>

---------------------------------------------------------------------------
(* JavaScript values: t is the type, s the text of a string, n the number. *)

Undefined == [t |-> "undefined", s |-> <<>>, n |-> 0]
Null      == [t |-> "null", s |-> <<>>, n |-> 0]
Str(s)    == [t |-> "string", s |-> s, n |-> 0]
Num(n)    == [t |-> "number", s |-> <<>>, n |-> n]
True      == [t |-> "boolean", s |-> <<>>, n |-> 1]

\* ToBoolean: what !v and v || w test
Truthy(v) ==
    CASE v.t = "undefined" -> FALSE
      [] v.t = "null"      -> FALSE
      [] v.t = "string"    -> v.s # <<>>
      [] v.t = "number"    -> v.n # 0
      [] OTHER             -> TRUE

\* an Error (isError) or some other thrown value, with its message
Error(m)    == [isError |-> TRUE, message |-> m]
NonError(m) == [isError |-> FALSE, message |-> m]

---------------------------------------------------------------------------
(* The inputs of an invocation. *)

Fragments ==
    {FragStatusQuery, FragSendMutation, FragQuery, FragStatus, FragMutation,
     FragSendMessage, FragSendMess}

RECURSIVE Concats(_)
Concats(k) ==
    IF k = 0
    THEN {<<>>}
    ELSE {f \o r : f \in Fragments, r \in Concats(k - 1)}

\* the descriptors: one to MaxFrags fragments, concatenated
Descriptors == UNION {Concats(k) : k \in 1..MaxFrags}

\* body.query: absent, falsy, of another type than string, or a descriptor
QueryValues ==
    {Undefined, Null, Str(<<>>), Num(0), Num(7), True}
        \cup {Str(d) : d \in Descriptors}

\* variables.input
InputValues ==
    {Undefined, Null, Str(<<>>), Str(TextBlank), Str(TextHello),
     Str(TextPadded), Num(0), Num(7)}

NoVariables == [t |-> "undefined", input |-> Undefined]

\* body.variables: absent, null, a string, or an object with its input
VariablesValues ==
    {NoVariables,
     [t |-> "null", input |-> Undefined],
     [t |-> "string", input |-> Undefined]}
        \cup {[t |-> "object", input |-> i] : i \in InputValues}

\* what request.json() resolves to (parses) or that it rejects
MalformedBody ==
    [parses |-> FALSE, t |-> "undefined", query |-> Undefined,
     variables |-> NoVariables]

JsonBodies ==
    {[parses |-> TRUE, t |-> "null", query |-> Undefined,
      variables |-> NoVariables],
     [parses |-> TRUE, t |-> "number", query |-> Undefined,
      variables |-> NoVariables]}
        \cup {[parses |-> TRUE, t |-> "object", query |-> q, variables |-> v] :
                q \in QueryValues, v \in VariablesValues}

Methods == {"OPTIONS", "GET", "POST", "DELETE"}

Requests ==
    {[method |-> m, body |-> MalformedBody] : m \in Methods}
        \cup {[method |-> "POST", body |-> b] : b \in JsonBodies}

\* message.content of a completion choice
Contents == {Str(<<>>), Str(TextHiThere)}

RECURSIVE ChoiceLists(_)
ChoiceLists(k) ==
    IF k = 0
    THEN {<<>>}
    ELSE {<<>>} \cup {<<c>> \o r : c \in Contents, r \in ChoiceLists(k - 1)}

NoJson == [t |-> "undefined", choices |-> <<>>]

\* what openAIResponse.json() resolves to: null or an OpenAIResponse
UpstreamJson ==
    {[t |-> "null", choices |-> <<>>]}
        \cup {[t |-> "object", choices |-> c] : c \in ChoiceLists(MaxChoices)}

RawBodies == {RawInvalidKey, RawQuota}

\* Response.ok
ResponseOk(status) == status >= 200 /\ status <= 299

Statuses == {200, 299, 300, 401, 500}

\* the responses of api.openai.com: the status, whether the body can be
\* read, its text, whether the text is JSON, and the value it parses to
UpstreamResponses ==
    {[status |-> s, readable |-> r, raw |-> b, parses |-> FALSE,
      parsed |-> NoJson] :
        s \in {x \in Statuses : ~ResponseOk(x)}, r \in BOOLEAN,
        b \in RawBodies}
    \cup
    {[status |-> s, readable |-> r, raw |-> RawQuota, parses |-> FALSE,
      parsed |-> NoJson] :
        s \in {x \in Statuses : ResponseOk(x)}, r \in BOOLEAN}
    \cup
    {[status |-> s, readable |-> TRUE, raw |-> <<>>, parses |-> TRUE,
      parsed |-> j] :
        s \in {x \in Statuses : ResponseOk(x)}, j \in UpstreamJson}

\* what fetch() rejects with when the call itself fails
FetchFailures ==
    {Error(ErrFetchFailed), Error(<<>>), NonError(ErrFetchFailed)}

---------------------------------------------------------------------------
(* The handler's pure parts. *)

\* body.query: reading a property of null throws
ReadsQuery(b) == b.t # "null"

GetQuery(b) == IF b.t = "object" THEN b.query ELSE Undefined

\* body.variables || {}
VariablesOrEmpty(b) ==
    IF b.t = "object" /\ b.variables.t \in {"object", "string"}
    THEN b.variables
    ELSE [t |-> "object", input |-> Undefined]

\* variables.input
GetInput(v) == IF v.t = "object" THEN v.input ELSE Undefined

\* a variant of Classify that tests the mutation markers first
ClassifyMutationFirst(q) ==
    IF Includes(q, MarkerMutation) /\ Includes(q, MarkerSendMessage)
    THEN "SendMessage"
    ELSE IF Includes(q, MarkerQuery) /\ Includes(q, MarkerStatus)
         THEN "StatusQuery"
         ELSE "Unsupported"

\* the if / else if / else over the lower-cased descriptor
Classify(q) ==
    IF Includes(q, MarkerQuery) /\ Includes(q, MarkerStatus)
    THEN "StatusQuery"
    ELSE IF Includes(q, MarkerMutation) /\ Includes(q, MarkerSendMessage)
         THEN "SendMessage"
         ELSE "Unsupported"

\* a variant of InputOutcome that does not trim
InputOutcomeNoTrim(i) ==
    IF ~Truthy(i)
    THEN "empty"
    ELSE IF i.t # "string" THEN "throws" ELSE "valid"

\* !input || input.trim() === '': a truthy value that is no string has no
\* trim, and the call throws a TypeError
InputOutcome(i) ==
    IF ~Truthy(i)
    THEN "empty"
    ELSE IF i.t # "string"
         THEN "throws"
         ELSE IF Trim(i.s) = <<>> THEN "empty" ELSE "valid"

\* the openAIRequest object
UpstreamRequest(i) ==
    [model |-> "gpt-3.5-turbo",
     messages |-> <<[role |-> "user", content |-> i]>>,
     max_tokens |-> MaxTokens]

\* an entry of data.sendMessage
Envelope(res, err) ==
    [result |-> res, requestId |-> "randomUUID", timestamp |-> "now",
     error |-> err]

NoEnvelope == Envelope(Undefined, Undefined)

DataStatus ==
    [hasData |-> TRUE, field |-> "status", status |-> MsgStatusOk,
     sendMessage |-> NoEnvelope, hasErrors |-> FALSE, errors |-> <<>>]

DataSendMessage(env) ==
    [hasData |-> TRUE, field |-> "sendMessage", status |-> <<>>,
     sendMessage |-> env, hasErrors |-> FALSE, errors |-> <<>>]

Errors(m) ==
    [hasData |-> FALSE, field |-> "none", status |-> <<>>,
     sendMessage |-> NoEnvelope, hasErrors |-> TRUE,
     errors |-> <<[message |-> m]>>]

NoBody ==
    [hasData |-> FALSE, field |-> "none", status |-> <<>>,
     sendMessage |-> NoEnvelope, hasErrors |-> FALSE, errors |-> <<>>]

\* new Response(JSON.stringify(b), {status, headers}): every value of a
\* GraphQLResponse built here is a string or null, which stringify keeps
JsonResponse(status, b) ==
    [status |-> status, hasBody |-> TRUE, body |-> b,
     contentType |-> "application/json", cors |-> TRUE]

\* new Response(null, {status: 204, headers: corsHeaders})
PreflightResponse ==
    [status |-> 204, hasBody |-> FALSE, body |-> NoBody,
     contentType |-> "", cors |-> TRUE]

\* a variant of RejectedMessage that embeds the upstream body
RejectedMessageWithBody(status, errorText) ==
    MsgApiErrorPrefix \o NumToStr(status) \o <<" ">> \o errorText

\* the error of the envelope for a response that is not ok
RejectedMessage(status, errorText) == MsgApiErrorPrefix \o NumToStr(status)

\* the console.error entry for a response that is not ok
RejectedLog(status, errorText) ==
    MsgApiErrorPrefix \o NumToStr(status) \o <<" ">> \o errorText
        \o <<" ">> \o ObjectToString

\* error instanceof Error ? error.message : fallback
CaughtMessage(e) == IF e.isError THEN e.message ELSE MsgProcessingError

InnerTry == {"call", "readText", "readJson"}

OuterTry ==
    {"parse", "checkQuery", "classify", "validate", "innerCatch", "respond"}

\* a variant of TryRegion without the outermost try
TryRegionNoOuter(p) == IF p \in InnerTry THEN "inner" ELSE "none"

\* a variant of TryRegion whose inner try ends before the body is parsed
TryRegionNarrowInner(p) ==
    CASE p \in InnerTry \ {"readJson"}     -> "inner"
      [] p \in OuterTry \cup {"readJson"}  -> "outer"
      [] OTHER                             -> "none"

\* the innermost try block around the statement at p
TryRegion(p) ==
    CASE p \in InnerTry -> "inner"
      [] p \in OuterTry -> "outer"
      [] OTHER          -> "none"

\* where control goes when the statement at p throws
Handler(p) ==
    CASE TryRegion(p) = "inner" -> "innerCatch"
      [] TryRegion(p) = "outer" -> "outerCatch"
      [] OTHER                  -> "rejected"

---------------------------------------------------------------------------
(* The invocation. *)

Init ==
    /\ pc = "idle"
    /\ request = <<>>
    /\ body = <<>>
    /\ query = <<>>
    /\ variables = NoVariables
    /\ input = Undefined
    /\ result = <<>>
    /\ response = <<>>
    /\ thrown = <<>>
    /\ upstream = <<>>
    /\ outbound = <<>>
    /\ log = <<>>
    /\ events = <<>>

\* a statement of the handler throws e
Raise(e) ==
    /\ thrown' = <<e>>
    /\ pc' = Handler(pc)

\* a return of the handler
Return(r) ==
    /\ response' = <<r>>
    /\ pc' = "done"

\* fetch is invoked: the preflight and the method gate
Fetch ==
    /\ pc = "idle"
    /\ \E req \in Requests :
        /\ request' = <<req>>
        /\ IF req.method = "OPTIONS"
           THEN Return(PreflightResponse)
           ELSE IF req.method # "POST"
                THEN Return(JsonResponse(405, Errors(MsgOnlyPost)))
                ELSE /\ pc' = "parse"
                     /\ UNCHANGED response
    /\ UNCHANGED <<body, query, variables, input, result, thrown, upstream,
                   outbound, log, events>>

\* await request.json()
ParseBody ==
    /\ pc = "parse"
    /\ IF request[1].body.parses
       THEN /\ body' = <<request[1].body>>
            /\ pc' = "checkQuery"
            /\ UNCHANGED thrown
       ELSE /\ Raise(Error(ErrJsonSyntax))
            /\ UNCHANGED body
    /\ UNCHANGED <<request, query, variables, input, result, response,
                   upstream, outbound, log, events>>

\* if (!body.query) return 400
CheckQuery ==
    /\ pc = "checkQuery"
    /\ IF ~ReadsQuery(body[1])
       THEN /\ Raise(Error(ErrReadQuery))
            /\ UNCHANGED response
       ELSE IF ~Truthy(GetQuery(body[1]))
            THEN /\ Return(JsonResponse(400, Errors(MsgInvalidRequest)))
                 /\ UNCHANGED thrown
            ELSE /\ pc' = "classify"
                 /\ UNCHANGED <<response, thrown>>
    /\ UNCHANGED <<request, body, query, variables, input, result, upstream,
                   outbound, log, events>>

\* query = body.query.toLowerCase(), variables = body.variables || {}, and
\* the branch on the markers
ClassifyQuery ==
    /\ pc = "classify"
    /\ IF GetQuery(body[1]).t # "string"
       THEN /\ Raise(Error(ErrToLowerCase))
            /\ UNCHANGED <<query, variables, input, result, events>>
       ELSE LET q == ToLowerCase(GetQuery(body[1]).s)
                v == VariablesOrEmpty(body[1])
            IN  /\ query' = q
                /\ variables' = v
                /\ events' = Append(events, Classify(q))
                /\ UNCHANGED thrown
                /\ CASE Classify(q) = "StatusQuery" ->
                            /\ result' = <<DataStatus>>
                            /\ pc' = "respond"
                            /\ UNCHANGED input
                     [] Classify(q) = "SendMessage" ->
                            /\ input' = GetInput(v)
                            /\ pc' = "validate"
                            /\ UNCHANGED result
                     [] OTHER ->
                            /\ result' = <<Errors(MsgUnsupported)>>
                            /\ pc' = "respond"
                            /\ UNCHANGED input
    /\ UNCHANGED <<request, body, response, upstream, outbound, log>>

\* if (!input || input.trim() === '')
Validate ==
    /\ pc = "validate"
    /\ CASE InputOutcome(input) = "throws" ->
                /\ Raise(Error(ErrTrim))
                /\ events' = Append(events, "validate")
                /\ UNCHANGED result
         [] InputOutcome(input) = "empty" ->
                /\ result' =
                       <<DataSendMessage(
                           Envelope(Str(<<>>), Str(MsgInputRequired)))>>
                /\ events' = Append(Append(events, "validate"), "envelope")
                /\ pc' = "respond"
                /\ UNCHANGED thrown
         [] OTHER ->
                /\ events' = Append(events, "validate")
                /\ pc' = "call"
                /\ UNCHANGED <<result, thrown>>
    /\ UNCHANGED <<request, body, query, variables, input, response,
                   upstream, outbound, log>>

\* await fetch('https://api.openai.com/v1/chat/completions', ...) and the
\* test of openAIResponse.ok
CallUpstream ==
    /\ pc = "call"
    /\ outbound' = Append(outbound, UpstreamRequest(input.s))
    /\ events' = Append(events, "call")
    /\ \/ \E e \in FetchFailures :
            /\ Raise(e)
            /\ UNCHANGED upstream
       \/ \E r \in UpstreamResponses :
            /\ upstream' = <<r>>
            /\ pc' = IF ResponseOk(r.status) THEN "readJson" ELSE "readText"
            /\ UNCHANGED thrown
    /\ UNCHANGED <<request, body, query, variables, input, result, response,
                   log>>

\* a variant of ReadErrorText that calls the upstream again after a
\* rejection
ReadErrorTextRetry ==
    /\ pc = "readText"
    /\ IF Len(outbound) < 2
       THEN /\ pc' = "call"
            /\ UNCHANGED <<thrown, log, result, events>>
       ELSE /\ result' =
                   <<DataSendMessage(
                       Envelope(Str(<<>>),
                           Str(RejectedMessage(upstream[1].status,
                                               upstream[1].raw))))>>
            /\ events' = Append(events, "envelope")
            /\ pc' = "respond"
            /\ UNCHANGED <<thrown, log>>
    /\ UNCHANGED <<request, body, query, variables, input, response,
                   upstream, outbound>>

\* the branch of a response that is not ok: await openAIResponse.text(),
\* console.error, and the envelope with the status
ReadErrorText ==
    /\ pc = "readText"
    /\ IF upstream[1].readable
       THEN /\ log' = Append(log,
                        [text |-> RejectedLog(upstream[1].status,
                                              upstream[1].raw),
                         error |-> <<>>])
            /\ result' =
                   <<DataSendMessage(
                       Envelope(Str(<<>>),
                           Str(RejectedMessage(upstream[1].status,
                                               upstream[1].raw))))>>
            /\ events' = Append(events, "envelope")
            /\ pc' = "respond"
            /\ UNCHANGED thrown
       ELSE /\ Raise(Error(ErrBodyStream))
            /\ UNCHANGED <<log, result, events>>
    /\ UNCHANGED <<request, body, query, variables, input, response,
                   upstream, outbound>>

\* the branch of a response that is ok: await openAIResponse.json() and the
\* envelope with openAIData.choices[0].message.content
ReadJson ==
    /\ pc = "readJson"
    /\ LET r == upstream[1]
       IN  CASE ~r.readable ->
                    /\ Raise(Error(ErrBodyStream))
                    /\ UNCHANGED <<result, events>>
             [] r.readable /\ ~r.parses ->
                    /\ Raise(Error(ErrJsonSyntax))
                    /\ UNCHANGED <<result, events>>
             [] r.readable /\ r.parses /\ r.parsed.t = "null" ->
                    /\ Raise(Error(ErrReadChoices))
                    /\ UNCHANGED <<result, events>>
             [] r.readable /\ r.parses /\ r.parsed.t # "null"
                  /\ r.parsed.choices = <<>> ->
                    /\ Raise(Error(ErrReadZero))
                    /\ UNCHANGED <<result, events>>
             [] OTHER ->
                    /\ result' =
                           <<DataSendMessage(
                               Envelope(r.parsed.choices[1], Null))>>
                    /\ events' = Append(events, "envelope")
                    /\ pc' = "respond"
                    /\ UNCHANGED thrown
    /\ UNCHANGED <<request, body, query, variables, input, response,
                   upstream, outbound, log>>

\* the catch of the try around the upstream call
InnerCatch ==
    /\ pc = "innerCatch"
    /\ log' = Append(log, [text |-> MsgProcessingError, error |-> thrown])
    /\ result' =
           <<DataSendMessage(
               Envelope(Str(<<>>), Str(CaughtMessage(thrown[1]))))>>
    /\ events' = Append(Append(events, "innerCatch"), "envelope")
    /\ pc' = "respond"
    /\ UNCHANGED <<request, body, query, variables, input, response, thrown,
                   upstream, outbound>>

\* return new Response(JSON.stringify(result), {status: 200, ...})
Respond ==
    /\ pc = "respond"
    /\ Return(JsonResponse(200, result[1]))
    /\ UNCHANGED <<request, body, query, variables, input, result, thrown,
                   upstream, outbound, log, events>>

\* the catch of the outermost try
OuterCatch ==
    /\ pc = "outerCatch"
    /\ log' = Append(log, [text |-> MsgProcessingError, error |-> thrown])
    /\ events' = Append(events, "outerCatch")
    /\ Return(JsonResponse(500, Errors(MsgProcessingError)))
    /\ UNCHANGED <<request, body, query, variables, input, result, thrown,
                   upstream, outbound>>

Next ==
    \/ Fetch
    \/ ParseBody
    \/ CheckQuery
    \/ ClassifyQuery
    \/ Validate
    \/ CallUpstream
    \/ ReadErrorText
    \/ ReadJson
    \/ InnerCatch
    \/ Respond
    \/ OuterCatch

Spec == Init /\ [][Next]_vars

---------------------------------------------------------------------------
(* Vocabulary of the properties. *)

Done == pc = "done"

Req == request[1]

Resp == response[1]

\* the response carries data.sendMessage
IsSendMessageResponse ==
    /\ Done
    /\ Resp.hasBody
    /\ Resp.body.hasData
    /\ Resp.body.field = "sendMessage"

Env == Resp.body.sendMessage

\* the request is a POST whose body parsed as JSON
Parsed == request # <<>> /\ Req.method = "POST" /\ Req.body.parses

\* the query of the request as the caller sent it
SentQuery == IF Req.body.t = "object" THEN Req.body.query ELSE Undefined

\* variables.input of the request as the caller sent it
SentInput ==
    IF Req.body.t = "object" /\ Req.body.variables.t = "object"
    THEN Req.body.variables.input
    ELSE Undefined

Markers == {MarkerQuery, MarkerStatus, MarkerMutation, MarkerSendMessage}

\* the pairs of a descriptor and a marker it contains, whatever the case
MarkerPairs ==
    UNION {{<<d, m>> : m \in {x \in Markers : Includes(ToLowerCase(d), x)}} :
             d \in Descriptors}

\* the descriptor of the request contains marker m
Has(m) == <<SentQuery.s, m>> \in MarkerPairs

HasDescriptor == Parsed /\ SentQuery.t = "string" /\ SentQuery.s # <<>>

StatusMarkers == Has(MarkerQuery) /\ Has(MarkerStatus)

SendMarkers == Has(MarkerMutation) /\ Has(MarkerSendMessage)

\* the request is one the router classifies as SendMessage
SendMessageRequest == HasDescriptor /\ ~StatusMarkers /\ SendMarkers

\* the input is absent, empty or made of white space only
BlankInput ==
    \/ SentInput.t = "undefined"
    \/ /\ SentInput.t = "string"
       /\ \A k \in 1..Len(SentInput.s) : SentInput.s[k] \in WhiteSpace

\* the input is a text with a character that is no white space
ValidInput ==
    /\ SentInput.t = "string"
    /\ \E k \in 1..Len(SentInput.s) : SentInput.s[k] \notin WhiteSpace

\* the upstream call returned a status outside 200..299
Rejected == upstream # <<>> /\ ~ResponseOk(upstream[1].status)

Occurred(e) == \E k \in 1..Len(events) : events[k] = e

\* the 500 response with the generic message only
GenericFailure == JsonResponse(500, Errors(MsgProcessingError))

---------------------------------------------------------------------------
(* The properties. *)

\* C1: every envelope returned under data.sendMessage has exactly one of a
\* non-empty result and a non-null error, on every path and for every
\* upstream content, the empty string included.
C1_ExactlyOneOfResultAndError ==
    IsSendMessageResponse =>
        ((Env.result.t = "string" /\ Env.result.s # <<>>)
            <=> ~(Env.error.t # "null"))

\* C2: a POST whose body parses as JSON and carries a truthy query is
\* answered with status 200, whatever the types of query and of
\* variables.input and whatever the upstream does.
C2_AcceptedRequestIs200 ==
    (Done /\ Parsed /\ Truthy(SentQuery)) => Resp.status = 200

\* C3: a SendMessage request whose input is absent, empty or white space
\* only never makes an upstream call and is answered with status 200, the
\* fixed input-required error and an empty result.
C3_BlankInputRejectedWithoutCall ==
    (request # <<>> /\ SendMessageRequest /\ BlankInput) =>
        /\ outbound = <<>>
        /\ Done =>
            /\ Resp.status = 200
            /\ IsSendMessageResponse
            /\ Env.error = Str(MsgInputRequired)
            /\ Env.result = Str(<<>>)

\* C3 witness: the white-space-only input has been answered.
C3_Witness ==
    /\ Done
    /\ SendMessageRequest
    /\ SentInput = Str(TextBlank)
    /\ Env.error = Str(MsgInputRequired)

\* C4: whenever the upstream call returns a status outside 2xx, also when
\* reading its body fails, the error carries the status code, the result
\* is empty and the raw upstream body is nowhere in the response.
C4_RejectionCarriesStatus ==
    (Done /\ Rejected) =>
        /\ IsSendMessageResponse
        /\ Env.error.t = "string"
        /\ Includes(Env.error.s, NumToStr(upstream[1].status))
        /\ Env.result = Str(<<>>)
        /\ ~Includes(Env.error.s, upstream[1].raw)

\* C5: the descriptor is classified by check order: query and status give
\* the status response even when mutation and sendmessage are there too;
\* otherwise mutation and sendmessage give SendMessage with the input taken
\* from variables.input; otherwise the answer is an errors list at status
\* 200 with no data.
C5_ClassificationByCheckOrder ==
    (HasDescriptor /\ pc \notin {"parse", "checkQuery", "classify"}) =>
        /\ StatusMarkers =>
            /\ events = <<"StatusQuery">>
            /\ Done => Resp = JsonResponse(200, DataStatus)
        /\ (~StatusMarkers /\ SendMarkers) =>
            /\ events[1] = "SendMessage"
            /\ input = SentInput
            /\ (Done /\ Resp.status = 200) => IsSendMessageResponse
        /\ (~StatusMarkers /\ ~SendMarkers) =>
            /\ events = <<"Unsupported">>
            /\ Done => Resp = JsonResponse(200, Errors(MsgUnsupported))
            /\ Done => ~Resp.body.hasData

\* C5 witness: a descriptor with all four markers got the status response.
C5_Witness ==
    /\ Done
    /\ HasDescriptor
    /\ StatusMarkers
    /\ SendMarkers
    /\ Resp = JsonResponse(200, DataStatus)

\* C6 as stated: after an upstream rejection or a transport failure the
\* error of the envelope is neither the exception's message (taken here
\* for the exceptions that have one) nor does it hold the raw upstream body.
C6_NoDetailReturned ==
    IsSendMessageResponse =>
        /\ (Occurred("innerCatch") /\ thrown[1].message # <<>>) =>
            Env.error.s # thrown[1].message
        /\ Rejected => ~Includes(Env.error.s, upstream[1].raw)

\* C6 as amended: the raw upstream body is only logged and is never in the
\* error of the envelope; the message of an exception caught around the
\* upstream call is logged and is also the error of the envelope verbatim
\* when the thrown value is an Error, the generic message otherwise.
C6_BodyLoggedMessageReturned ==
    IsSendMessageResponse =>
        /\ Rejected => ~Includes(Env.error.s, upstream[1].raw)
        /\ (Rejected /\ ~Occurred("innerCatch")) =>
            /\ Env.error =
                   Str(MsgApiErrorPrefix \o NumToStr(upstream[1].status))
            /\ \E k \in 1..Len(log) : Includes(log[k].text, upstream[1].raw)
        /\ Occurred("innerCatch") =>
            /\ Env.error =
                   Str(IF thrown[1].isError
                       THEN thrown[1].message
                       ELSE MsgProcessingError)
            /\ \E k \in 1..Len(log) : log[k].error = thrown

\* C6 witness: a rejected call whose body could not be read was answered
\* with the exception's message.
C6_Witness ==
    /\ IsSendMessageResponse
    /\ Rejected
    /\ Occurred("innerCatch")
    /\ thrown[1].isError
    /\ Env.error = Str(ErrBodyStream)

\* C7: no failure leaves the handler: it never rejects, it returns one Response, and
\* malformed JSON or any fault not caught around the upstream call gives
\* status 500 with the generic message only.
C7_NoFaultEscapes ==
    /\ pc # "rejected"
    /\ Done <=> Len(response) = 1
    /\ (Done /\ request # <<>> /\ Req.method = "POST"
          /\ (~Req.body.parses
                \/ (thrown # <<>> /\ ~Occurred("innerCatch")))) =>
        Resp = GenericFailure

\* C7 witness: a POST with malformed JSON has been answered with 500.
C7_Witness ==
    /\ Done
    /\ Req.method = "POST"
    /\ ~Req.body.parses
    /\ Resp = GenericFailure

\* C8: validation precedes the upstream call, which precedes the envelope;
\* the number of upstream calls is one for a SendMessage request with
\* valid input and zero on every other path, whatever the call's outcome.
C8_ValidateCallEnvelope ==
    /\ \A i \in 1..Len(events) :
        /\ events[i] = "call" =>
            \E k \in 1..(i - 1) : events[k] = "validate"
        /\ events[i] = "envelope" =>
            /\ \E k \in 1..(i - 1) : events[k] = "validate"
            /\ \A j \in 1..Len(events) : events[j] = "call" => j < i
            /\ \A j \in 1..Len(events) : events[j] = "envelope" => j = i
    /\ Len(outbound) = Cardinality({i \in 1..Len(events) : events[i] = "call"})
    /\ Len(outbound) <= 1
    /\ Done =>
        Len(outbound) = IF SendMessageRequest /\ ValidInput THEN 1 ELSE 0
    /\ outbound # <<>> => outbound[1] = UpstreamRequest(SentInput.s)

\* C8 witness: a rejected call was answered after one call, in order.
C8_Witness ==
    /\ Done
    /\ Rejected
    /\ Len(outbound) = 1
    /\ events = <<"SendMessage", "validate", "call", "envelope">>

\* C9: OPTIONS gives 204 with no body, any method other than POST and
\* OPTIONS gives 405 with an errors array, a POST whose parsed body has no
\* query gives 400 with an errors array; none of them is classified and
\* none returns data.
C9_TransportErrors ==
    Done =>
        /\ Req.method = "OPTIONS" =>
            /\ Resp.status = 204
            /\ ~Resp.hasBody
            /\ events = <<>>
        /\ Req.method \notin {"POST", "OPTIONS"} =>
            /\ Resp.status = 405
            /\ Resp.body.hasErrors
            /\ ~Resp.body.hasData
            /\ events = <<>>
        /\ (Parsed /\ ~Truthy(SentQuery)) =>
            /\ Resp.status = 400
            /\ Resp.body.hasErrors
            /\ ~Resp.body.hasData
            /\ events = <<>>

\* C10: a 2xx upstream response whose body parses and has no completion
\* choice is answered with status 200 and an envelope with an empty result
\* and a non-null error, never with the generic 500.
C10_ZeroChoicesCaughtInside ==
    (Done /\ upstream # <<>> /\ ResponseOk(upstream[1].status)
       /\ upstream[1].readable /\ upstream[1].parses
       /\ upstream[1].parsed.t = "object"
       /\ upstream[1].parsed.choices = <<>>) =>
        /\ Resp.status = 200
        /\ IsSendMessageResponse
        /\ Env.result = Str(<<>>)
        /\ Env.error.t = "string"
        /\ Resp # GenericFailure

\* C10 witness: such a response has been answered with the TypeError's
\* message in the envelope.
C10_Witness ==
    /\ Done
    /\ upstream # <<>>
    /\ ResponseOk(upstream[1].status)
    /\ upstream[1].parses
    /\ upstream[1].parsed.t = "object"
    /\ upstream[1].parsed.choices = <<>>
    /\ Env.error = Str(ErrReadZero)

====
